---- MODULE Spec2Model ----
(***************************************************************************)
(* Model of the espnow-bridge host library (package bridge): the peer      *)
(* table of a Bridge, the three pipeline goroutines readBytes,             *)
(* reassembleMessages and writeBytes started by setupBridge, the channels  *)
(* between them, and Bridge.WaitForConnected.                              *)
(***************************************************************************)
EXTENDS Integers, Sequences, FiniteSets, TLC

VARIABLES
    peers,      \* Bridge.peers: sequence of [mac, wifiChannel]
    lastOp,     \* history: the last peer-table call, its result and the table before it
    nAdd,       \* history: number of AddPeer calls made
    nRemove,    \* history: number of RemovePeer calls made
    configured, \* history: peers added by a successful AddPeer and not since removed
    apc,        \* position of the application goroutine (the caller of Connect)
    active,     \* Bridge.active, the session state shared by reassembler and writer
    sees,       \* the values an unsynchronized read of Bridge.active may return
    serial,     \* bytes the device has sent that readBytes has not yet forwarded
    nChunks,    \* history: number of chunks the device has sent
    chunkLog,   \* history: the chunks the device has sent, where a specification logs them
    bytesRead,  \* channel bytesRead (buffered, 1024)
    rpc,        \* position of reassembleMessages
    detected,   \* reassembleMessages: local detected
    rbuf,       \* reassembleMessages: header, mac, crc, size, data read so far
    scanned,    \* history: the last bytes taken by the marker scan since the last desync
    inbox,      \* channel inbox (buffered, 64)
    outbox,     \* channel outbox (buffered, 64)
    nSent,      \* history: number of messages the application has put in the Outbox
    wpc,        \* position of writeBytes
    written,    \* frames put on the connection by the current iteration of writeBytes
    exited,     \* the process has ended through log.Fatal
    now,        \* the clock, in polling intervals of WaitForConnected
    wfcPc,      \* position of WaitForConnected
    wfc,        \* WaitForConnected: its locals and history
    clock,      \* the clock of the handshake wait, in seconds
    scanFrom,   \* the time at which the current time.After of the marker scan was started
    resetAt,    \* history: the time of the reassembler's last reset-request
    connection, \* Bridge.connection: 0 is nil, k the port of the k-th successful serial.Open
    portState,  \* per port: "none", "open" or "closed"
    boxes,      \* Bridge.Inbox and Bridge.Outbox: 0 is nil, k the channels made by the k-th setupBridge
    closedChans,\* the channels that have been closed, as << name, k >>
    pending,    \* per pipeline: the number of Messages waiting in its outbox channel
    wire,       \* per port: the writes it has received, in order
    lpc,        \* position of the application goroutine inside Connect
    calls,      \* history: the Connect and Close calls made
    lret,       \* the error returned by the last Connect or Close that returned
    readers,    \* per pipeline: position of readBytes
    reassemblers, \* per pipeline: position of reassembleMessages
    writers     \* per pipeline: position and locals of writeBytes

vars == << peers, lastOp, nAdd, nRemove, configured, apc, active, sees, serial,
           nChunks, chunkLog, bytesRead, rpc, detected, rbuf, scanned, inbox, outbox, nSent,
           wpc, written, exited, now, wfcPc, wfc, clock, scanFrom, resetAt,
           connection, portState, boxes, closedChans, pending, wire, lpc, calls, lret,
           readers, reassemblers, writers >>

peerVars == << peers, lastOp, nAdd, nRemove, configured >>
pipeVars == << active, sees, serial, nChunks, chunkLog, bytesRead, rpc, detected,
               rbuf, scanned, inbox, outbox, nSent, wpc, written, exited >>
waitVars == << now, wfcPc, wfc >>
retryVars == << clock, scanFrom, resetAt >>
lifeVars == << connection, portState, boxes, closedChans, pending, wire, lpc, calls, lret,
              readers, reassemblers, writers >>
(* the variables of one pipeline that the lifecycle of a Bridge leaves alone *)
pipeRest == << serial, nChunks, chunkLog, bytesRead, rpc, detected, rbuf, scanned, inbox,
              outbox, nSent, wpc, written >>

-----------------------------------------------------------------------------
(* Bounds of the model *)

MaxAddCalls == 21       \* AddPeer calls made in SpecPeers
MaxRemoveCalls == 2     \* RemovePeer calls made in SpecPeers
MaxTable == 3           \* length of the tables RemovePeer is applied to in SpecRemove
NumMacs == 2            \* distinct addresses used by the application in Spec
MaxPeerOps == 2         \* AddPeer / RemovePeer calls made in SpecPush
MaxChunks == 3          \* chunks the device sends
MaxSends == 1           \* messages the application puts in the Outbox
MaxTime == 3            \* clock ticks
MaxWait == 2            \* longest timeout given to WaitForConnected, in ticks
MaxConnects == 2        \* successful serial.Open calls in SpecLife
MaxCalls == 4           \* Connect and Close calls in SpecLife
MaxWrites == 7          \* writes to the ports in SpecLife

(* Program constants *)

PeerLimit == 20         \* len(b.peers) >= 20
MaxPayload == 250       \* len(msg.Data) > 250
BytesReadCap == 1024    \* make(chan byte, 1024)
InboxCap == 64          \* make(chan Message, 64)
OutboxCap == 64         \* make(chan Message, 64)

-----------------------------------------------------------------------------
(* Bytes and 16-bit arithmetic *)

Bit(a, k) == (a \div (2 ^ k)) % 2
FlipBit(a, k) == IF Bit(a, k) = 1 THEN a - 2 ^ k ELSE a + 2 ^ k
XorBit(a, b, k) == IF Bit(b, k) = 1 THEN FlipBit(a, k) ELSE a

(* crc ^ 0x1021, the XMODEM polynomial *)
XorPoly(crc) == FlipBit(FlipBit(FlipBit(crc, 0), 5), 12)

(* crc ^ (b << 8): the byte enters the high half of the 16-bit register *)
XorHigh(crc, b) ==
    XorBit(XorBit(XorBit(XorBit(XorBit(XorBit(XorBit(XorBit(crc,
        b * 256, 8), b * 256, 9), b * 256, 10), b * 256, 11), b * 256, 12),
        b * 256, 13), b * 256, 14), b * 256, 15)

RECURSIVE CrcShift(_, _)
(* n rounds of the shift register, 16 bits wide *)
CrcShift(crc, n) ==
    IF n = 0 THEN crc
    ELSE IF crc >= 32768
      THEN CrcShift(XorPoly((crc * 2) % 65536), n - 1)
      ELSE CrcShift((crc * 2) % 65536, n - 1)

CrcByte(crc, b) == CrcShift(XorHigh(crc, b), 8)

(* crc.XMODEM: polynomial 0x1021, initial value 0, not reflected, no final xor. *)
(* CrcRange[crc, lo, hi] is the register after the bytes data[lo..hi], taken   *)
(* in order, starting from crc.                                               *)
CalculateCRC(data) ==
    LET CrcRange[crc \in 0..65535, lo \in 1..(Len(data) + 1), hi \in 0..Len(data)] ==
            IF lo > hi THEN crc
            ELSE IF lo = hi THEN CrcByte(crc, data[lo])
            ELSE CrcRange[CrcRange[crc, lo, (lo + hi) \div 2],
                          ((lo + hi) \div 2) + 1, hi]
    IN  CrcRange[0, 1, Len(data)]

CrcLow(c) == c % 256
CrcHigh(c) == (c \div 256) % 256

-----------------------------------------------------------------------------
(* The peer table *)

Mac(k) == << 46, 244, 50, 18, 213, k >>
Channels == {1, 6}

NoOp == [op |-> "none", mac |-> << >>, ch |-> 0, err |-> "nil", before |-> << >>]

(* append(b.peers): Go's variadic append, here called with no element *)
AppendPeers(ps, elems) == ps \o elems

(* Bridge.AddPeer *)
AddPeer(mac, wifiChannel) ==
    LET newPeer == [mac |-> mac, wifiChannel |-> wifiChannel]
    IN  IF Len(peers) >= PeerLimit
          THEN /\ peers' = peers
               /\ lastOp' = [op |-> "AddPeer", mac |-> mac, ch |-> wifiChannel,
                             err |-> "PeerTableFull", before |-> peers]
          ELSE /\ peers' = AppendPeers(peers, << >>)
               /\ lastOp' = [op |-> "AddPeer", mac |-> mac, ch |-> wifiChannel,
                             err |-> "nil", before |-> peers]

(* the loop of RemovePeer: index of the first entry with this mac, 0 if none *)
FindPeer(ps, mac) ==
    IF \E i \in 1..Len(ps) : ps[i].mac = mac
      THEN CHOOSE i \in 1..Len(ps) :
              /\ ps[i].mac = mac
              /\ \A j \in 1..(i - 1) : ps[j].mac # mac
      ELSE 0

RemoveAtTruncOnly(ps, peerIndex) == SubSeq(ps, 1, Len(ps) - 1)

(* b.peers[peerIndex] = b.peers[len-1]; b.peers = b.peers[:len-1] *)
RemoveAt(ps, peerIndex) ==
    SubSeq([ps EXCEPT ![peerIndex] = ps[Len(ps)]], 1, Len(ps) - 1)

(* Bridge.RemovePeer *)
RemovePeer(mac) ==
    LET peerIndex == FindPeer(peers, mac)
    IN  /\ peers' = IF peerIndex # 0 THEN RemoveAt(peers, peerIndex) ELSE peers
        /\ lastOp' = [op |-> "RemovePeer", mac |-> mac, ch |-> 0,
                      err |-> "nil", before |-> peers]

-----------------------------------------------------------------------------
(* The wire format *)

ActivationHeader == << 17, 34, 51, 68, 85, 102, 119 >>   \* 11 22 33 44 55 66 77
RecvMessageHeader == << 85, 68 >>                         \* 55 44
GetPeersHeader == << 68, 51 >>                            \* 44 33
SendMessageHeader == << 34, 17 >>                         \* 22 11
ResetMessage == << 66, 66, 66, 66 >>                      \* 42 42 42 42
AddPeerHeader == << 51, 34 >>                             \* 33 22
ForcedReset == << 0, 0, 0, 0, 0 >>

(* the device's msg_recv_cb: marker, src_mac, crc (little endian), size, data *)
DeviceFrame(mac, data) ==
    RecvMessageHeader \o mac
      \o << CrcLow(CalculateCRC(data)), CrcHigh(CalculateCRC(data)) >>
      \o << Len(data) >> \o data

FlipLowBit(b) == IF b % 2 = 0 THEN b + 1 ELSE b - 1

(* a device frame whose last payload byte was changed on the line *)
CorruptFrame(mac, data) ==
    LET f == DeviceFrame(mac, data)
    IN  [f EXCEPT ![Len(f)] = FlipLowBit(f[Len(f)])]

InMessages ==
    { [Mac |-> << 170, 187, 204, 221, 238, 255 >>, Data |-> << 104, 105 >>],
      [Mac |-> Mac(2), Data |-> << >>] }

MarkerChunk == [kind |-> "marker", Mac |-> << >>, Data |-> << >>]
GetPeersChunk == [kind |-> "getpeers", Mac |-> << >>, Data |-> << >>]
BadHeaderChunk == [kind |-> "badheader", Mac |-> << >>, Data |-> << >>]
NoiseChunk == [kind |-> "noise", Mac |-> << >>, Data |-> << >>]
FrameChunk(m) == [kind |-> "frame", Mac |-> m.Mac, Data |-> m.Data]
CorruptChunk(m) == [kind |-> "corrupt", Mac |-> m.Mac, Data |-> m.Data]

FrameChunks == {FrameChunk(m) : m \in InMessages}
CorruptChunks == {CorruptChunk(m) : m \in {x \in InMessages : x.Data # << >>}}
AllChunks ==
    {MarkerChunk, GetPeersChunk, BadHeaderChunk, NoiseChunk}
      \cup FrameChunks \cup CorruptChunks
FrameStreamChunks ==
    {MarkerChunk, BadHeaderChunk, NoiseChunk} \cup FrameChunks \cup CorruptChunks

ChunkBytes(c) ==
    CASE c.kind = "marker"    -> ActivationHeader
      [] c.kind = "getpeers"  -> GetPeersHeader
      [] c.kind = "badheader" -> << 153, 1 >>
      [] c.kind = "noise"     -> << 17 >>
      [] c.kind = "frame"     -> DeviceFrame(c.Mac, c.Data)
      [] c.kind = "corrupt"   -> CorruptFrame(c.Mac, c.Data)

MessageFrameHighFirst(msg) ==
    SendMessageHeader \o msg.Mac
      \o << CrcHigh(CalculateCRC(msg.Data)), CrcLow(CalculateCRC(msg.Data)) >>
      \o << Len(msg.Data) % 256 >> \o msg.Data

(* what writeBytes writes for a Message *)
MessageFrame(msg) ==
    SendMessageHeader \o msg.Mac
      \o << CrcLow(CalculateCRC(msg.Data)), CrcHigh(CalculateCRC(msg.Data)) >>
      \o << Len(msg.Data) % 256 >> \o msg.Data

(* what writeBytes writes for a peer *)
PeerFrame(p) == AddPeerHeader \o p.mac \o << p.wifiChannel >>

-----------------------------------------------------------------------------
(* The device and readBytes *)

(* The device writes a chunk to the line once the host has taken up the last. *)
DeviceWrite(chunks, logged) ==
    /\ ~exited
    /\ apc # "new"
    /\ nChunks < MaxChunks
    /\ serial = << >>
    /\ bytesRead = << >>
    /\ \E c \in chunks :
         /\ serial' = ChunkBytes(c)
         /\ chunkLog' = IF logged THEN Append(chunkLog, c) ELSE chunkLog
    /\ nChunks' = nChunks + 1
    /\ UNCHANGED << peerVars, apc, active, sees, bytesRead, rpc, detected, rbuf, scanned,
                    inbox, outbox, nSent, wpc, written, exited, waitVars,
                    retryVars, lifeVars >>

DeviceSend(chunks) == DeviceWrite(chunks, FALSE)
DeviceSendLogged(chunks) == DeviceWrite(chunks, TRUE)

(* readBytes: one source.Read(buf) and the loop output <- buf[i] over what it *)
(* returned; the sends block while the channel is full                       *)
ReadBytes ==
    /\ ~exited
    /\ apc # "new"
    /\ serial # << >>
    /\ Len(bytesRead) + Len(serial) <= BytesReadCap
    /\ bytesRead' = bytesRead \o serial
    /\ serial' = << >>
    /\ UNCHANGED << peerVars, apc, active, sees, nChunks, chunkLog, rpc, detected, rbuf, scanned,
                    inbox, outbox, nSent, wpc, written, exited, waitVars,
                    retryVars, lifeVars >>

-----------------------------------------------------------------------------
(* reassembleMessages *)

(* if b == activationHeader[detected] { detected++ } else { detected = 0 } *)
ScanStep(d, b) == IF b = ActivationHeader[d + 1] THEN d + 1 ELSE 0

ScanGoesOnShort(d) == d < Len(ActivationHeader) - 1

(* for detected < len(activationHeader) *)
ScanGoesOn(d) == d < Len(ActivationHeader)

HeaderKindLax(h) ==
    IF h = GetPeersHeader THEN "getpeers" ELSE "message"

HeaderKindNoPeers(h) ==
    IF h = RecvMessageHeader THEN "message" ELSE "unknown"

(* switch on header[0], header[1] *)
HeaderKind(h) ==
    IF h = RecvMessageHeader THEN "message"
    ELSE IF h = GetPeersHeader THEN "getpeers"
    ELSE "unknown"

FrameMac(buf) == SubSeq(buf, 3, 8)
FrameCrc(buf) == buf[9] + 256 * buf[10]
FrameSize(buf) == buf[11]
FrameData(buf) == SubSeq(buf, 12, Len(buf))
FrameComplete(buf) == Len(buf) >= 11 /\ Len(buf) = 11 + FrameSize(buf)

CrcFailureNever(buf) == FALSE

(* (uint16(crc[0]) | (uint16(crc[1]) << 8)) != uint16(dataCRC) *)
CrcFailure(buf) == FrameCrc(buf) # CalculateCRC(FrameData(buf)) % 65536

FrameMessageNoMac(buf) == [Mac |-> << 0, 0, 0, 0, 0, 0 >>, Data |-> FrameData(buf)]

(* msg := Message{Data: data}; copy(msg.Mac[:], mac) *)
FrameMessage(buf) == [Mac |-> FrameMac(buf), Data |-> FrameData(buf)]

(* *active = v, by the reassembler; unsynchronized readers may see it or not *)
SetActive(v) ==
    /\ active' = v
    /\ sees' = [writer |-> sees.writer \cup {v}, app |-> sees.app \cup {v}]

LastBytes(q, n) == IF Len(q) <= n THEN q ELSE SubSeq(q, Len(q) - n + 1, Len(q))

(* the marker scan: case b, running := <-input *)
RScan ==
    /\ ~exited
    /\ rpc = "scan"
    /\ bytesRead # << >>
    /\ bytesRead' = Tail(bytesRead)
    /\ LET d == ScanStep(detected, Head(bytesRead))
       IN  IF ScanGoesOn(d)
             THEN /\ detected' = d
                  /\ UNCHANGED << active, sees, rpc >>
             ELSE /\ detected' = 0
                  /\ SetActive(TRUE)
                  /\ rpc' = "frame"
    /\ scanned' = LastBytes(Append(scanned, Head(bytesRead)), Len(ActivationHeader))
    /\ scanFrom' = clock
    /\ UNCHANGED << peerVars, apc, serial, nChunks, chunkLog, rbuf, inbox, outbox,
                    nSent, wpc, written, exited, waitVars, clock, resetAt, lifeVars >>

(* the marker scan: case <-time.After(2 * time.Second), no byte having arrived *)
RScanTimeout ==
    /\ ~exited
    /\ rpc = "scan"
    /\ bytesRead = << >>
    /\ rpc' = "resend"
    /\ UNCHANGED << peerVars, apc, active, sees, serial, nChunks, chunkLog, bytesRead,
                    detected, rbuf, scanned, inbox, outbox, nSent, wpc, written, exited,
                    waitVars,
                    retryVars, lifeVars >>

(* *active = false; continue: back to the top of the loop, where !*active holds *)
Desync ==
    /\ SetActive(FALSE)
    /\ rbuf' = << >>
    /\ scanned' = << >>
    /\ rpc' = "reset"

(* getBytes / <-input while connected: one byte of the header or of the frame *)
RRead ==
    /\ ~exited
    /\ rpc = "frame"
    /\ bytesRead # << >>
    /\ bytesRead' = Tail(bytesRead)
    /\ LET buf == Append(rbuf, Head(bytesRead))
       IN  IF Len(buf) < 2
             THEN rbuf' = buf /\ UNCHANGED << active, sees, rpc, scanned >>
           ELSE IF HeaderKind(SubSeq(buf, 1, 2)) = "unknown"
             THEN Desync
           ELSE IF HeaderKind(SubSeq(buf, 1, 2)) = "getpeers"
             THEN rbuf' = << >> /\ rpc' = "push" /\ UNCHANGED << active, sees, scanned >>
           ELSE IF ~FrameComplete(buf)
             THEN rbuf' = buf /\ UNCHANGED << active, sees, rpc, scanned >>
           ELSE IF CrcFailure(buf)
             THEN Desync
           ELSE rbuf' = buf /\ rpc' = "emit" /\ UNCHANGED << active, sees, scanned >>
    /\ UNCHANGED << peerVars, apc, serial, nChunks, chunkLog, detected, inbox,
                    outbox, nSent, wpc, written, exited, waitVars,
                    retryVars, lifeVars >>

(* output <- msg *)
REmit ==
    /\ ~exited
    /\ rpc = "emit"
    /\ Len(inbox) < InboxCap
    /\ inbox' = Append(inbox, FrameMessage(rbuf))
    /\ rbuf' = << >>
    /\ rpc' = "frame"
    /\ UNCHANGED << peerVars, apc, active, sees, serial, nChunks, chunkLog, bytesRead,
                    detected, scanned, outbox, nSent, wpc, written, exited, waitVars,
                    retryVars, lifeVars >>

-----------------------------------------------------------------------------
(* writeBytes *)

OutMessages ==
    { [Mac |-> Mac(1), Data |-> << 104, 105 >>],
      [Mac |-> Mac(1), Data |-> [i \in 1..MaxPayload |-> 0]],
      [Mac |-> Mac(1), Data |-> [i \in 1..(MaxPayload + 1) |-> 0]] }

OversizeOffByOne(msg) == Len(msg.Data) > MaxPayload + 1

(* if len(msg.Data) > 250 { log.Fatal(...) } *)
Oversize(msg) == Len(msg.Data) > MaxPayload

(* for _, p := range b.peers { addPeer, p.mac, p.wifiChannel } *)
PeerFrames(ps) == [i \in 1..Len(ps) |-> PeerFrame(ps[i])]

(* a goroutine is blocked in reset <- true *)
ReassemblerSendsReset == rpc \in {"reset", "resend"}
ConnectSendsReset == apc \in {"c1", "c2"}

(* for { runtime.Gosched(); if !b.active ... }: the unsynchronized read *)
WTop ==
    /\ ~exited
    /\ wpc = "top"
    /\ \E v \in sees.writer : wpc' = IF v THEN "selC" ELSE "selN"
    /\ written' = << >>
    /\ UNCHANGED << peerVars, apc, active, sees, serial, nChunks, chunkLog, bytesRead, rpc,
                    detected, rbuf, scanned, inbox, outbox, nSent, exited, waitVars,
                    retryVars, lifeVars >>

(* not connected: case <-time.After(100 * time.Millisecond), no reset offered *)
WTimeout ==
    /\ ~exited
    /\ wpc = "selN"
    /\ ~ReassemblerSendsReset
    /\ ~ConnectSendsReset
    /\ wpc' = "top"
    /\ UNCHANGED << peerVars, apc, active, sees, serial, nChunks, chunkLog, bytesRead, rpc,
                    detected, rbuf, scanned, inbox, outbox, nSent, written, exited,
                    waitVars,
                    retryVars, lifeVars >>

(* case <-reset in either select, the sender being reassembleMessages *)
WRecvReset ==
    /\ ~exited
    /\ wpc \in {"selN", "selC"}
    /\ ReassemblerSendsReset
    /\ rpc' = "scan"
    /\ detected' = IF rpc = "reset" THEN 0 ELSE detected
    /\ written' = << ResetMessage >>
    /\ wpc' = "top"
    /\ sees' = [sees EXCEPT !.writer = {active}]
    /\ resetAt' = clock
    /\ scanFrom' = clock
    /\ UNCHANGED << peerVars, apc, active, serial, nChunks, chunkLog, bytesRead, rbuf, scanned,
                    inbox, outbox, nSent, exited, waitVars, clock, lifeVars >>

(* case <-reset in either select, the sender being setupBridge *)
WRecvConnectReset ==
    /\ ~exited
    /\ wpc \in {"selN", "selC"}
    /\ ConnectSendsReset
    /\ apc' = IF apc = "c1" THEN "c2" ELSE "ready"
    /\ written' = << ResetMessage >>
    /\ wpc' = "top"
    /\ UNCHANGED << peerVars, active, sees, serial, nChunks, chunkLog, bytesRead, rpc,
                    detected, rbuf, scanned, inbox, outbox, nSent, exited, waitVars,
                    retryVars, lifeVars >>

(* connected: case msg := <-box *)
WRecvMsg ==
    /\ ~exited
    /\ wpc = "selC"
    /\ outbox # << >>
    /\ outbox' = Tail(outbox)
    /\ IF Oversize(Head(outbox))
         THEN exited' = TRUE /\ UNCHANGED << written, wpc >>
         ELSE /\ written' = << MessageFrame(Head(outbox)) >>
              /\ wpc' = "top"
              /\ UNCHANGED exited
    /\ UNCHANGED << peerVars, apc, active, sees, serial, nChunks, chunkLog, bytesRead, rpc,
                    detected, rbuf, scanned, inbox, nSent, waitVars,
                    retryVars, lifeVars >>

(* connected: case <-sendPeers *)
WRecvSendPeers ==
    /\ ~exited
    /\ wpc = "selC"
    /\ rpc = "push"
    /\ rpc' = "frame"
    /\ written' = PeerFrames(peers)
    /\ wpc' = "top"
    /\ sees' = [sees EXCEPT !.writer = {active}]
    /\ UNCHANGED << peerVars, apc, active, serial, nChunks, chunkLog, bytesRead, detected,
                    rbuf, scanned, inbox, outbox, nSent, exited, waitVars,
                    retryVars, lifeVars >>

-----------------------------------------------------------------------------
(* The application *)

(* Connect / setupBridge up to the first reset <- true *)
Connect ==
    /\ ~exited
    /\ apc = "new"
    /\ apc' = "c1"
    /\ written' = << ForcedReset >>
    /\ rpc' = "reset"
    /\ wpc' = "top"
    /\ UNCHANGED << peerVars, active, sees, serial, nChunks, chunkLog, bytesRead, detected,
                    rbuf, scanned, inbox, outbox, nSent, exited, waitVars,
                    retryVars, lifeVars >>

(* br.Outbox <- msg *)
AppSend ==
    /\ ~exited
    /\ apc = "ready"
    /\ nSent < MaxSends
    /\ Len(outbox) < OutboxCap
    /\ \E m \in OutMessages : outbox' = Append(outbox, m)
    /\ nSent' = nSent + 1
    /\ UNCHANGED << peerVars, apc, active, sees, serial, nChunks, chunkLog, bytesRead, rpc,
                    detected, rbuf, scanned, inbox, wpc, written, exited, waitVars,
                    retryVars, lifeVars >>

AppMacs == {Mac(k) : k \in 1..NumMacs}

Remaining(conf, mac) ==
    LET i == FindPeer(conf, mac)
    IN  IF i = 0 THEN conf
        ELSE SubSeq(conf, 1, i - 1) \o SubSeq(conf, i + 1, Len(conf))

(* br.AddPeer(mac, channel) *)
AppAddPeer ==
    /\ ~exited
    /\ apc \in {"new", "ready"}
    /\ nAdd + nRemove < MaxPeerOps
    /\ \E mac \in AppMacs, ch \in Channels :
         /\ AddPeer(mac, ch)
         /\ configured' = IF lastOp'.err = "nil"
                            THEN Append(configured, [mac |-> mac, wifiChannel |-> ch])
                            ELSE configured
    /\ nAdd' = nAdd + 1
    /\ UNCHANGED << nRemove, apc, pipeVars, waitVars,
                    retryVars, lifeVars >>

(* br.RemovePeer(mac) *)
AppRemovePeer ==
    /\ ~exited
    /\ apc \in {"new", "ready"}
    /\ nAdd + nRemove < MaxPeerOps
    /\ \E mac \in AppMacs :
         /\ RemovePeer(mac)
         /\ configured' = Remaining(configured, mac)
    /\ nRemove' = nRemove + 1
    /\ UNCHANGED << nAdd, apc, pipeVars, waitVars,
                    retryVars, lifeVars >>

-----------------------------------------------------------------------------
(* Bridge.WaitForConnected, and the clock. One tick is the 10 ms polling     *)
(* interval; time.Now() reads the clock.                                     *)

NoWait == [maxWait |-> 0, end |-> 0, active |-> FALSE, wake |-> 0,
           retAt |-> 0, retConnected |-> FALSE]

Tick ==
    /\ ~exited
    /\ apc = "ready"
    /\ now < MaxTime
    /\ now' = now + 1
    /\ UNCHANGED << peerVars, apc, pipeVars, wfcPc, wfc,
                    retryVars, lifeVars >>

(* the loop condition: end.Before(time.Now()) *)
LoopCondition(end, t) == end < t

(* br.WaitForConnected(maxWait): the value receiver copies the Bridge, and   *)
(* with it the field active, by an unsynchronized read;                      *)
(* end := time.Now().Add(maxWait)                                            *)
WfcCall ==
    /\ ~exited
    /\ apc = "ready"
    /\ wfcPc = "idle"
    /\ \E maxWait \in 1..MaxWait, v \in sees.app :
         wfc' = [NoWait EXCEPT !.maxWait = maxWait, !.end = now + maxWait,
                               !.active = v]
    /\ wfcPc' = "test"
    /\ UNCHANGED << peerVars, apc, pipeVars, now,
                    retryVars, lifeVars >>

(* for end.Before(time.Now()) { ... }: the loop is left, and the call returns *)
WfcTest ==
    /\ ~exited
    /\ wfcPc = "test"
    /\ IF LoopCondition(wfc.end, now)
         THEN wfcPc' = "body" /\ UNCHANGED wfc
         ELSE /\ wfcPc' = "returned"
              /\ wfc' = [wfc EXCEPT !.retAt = now, !.retConnected = active]
    /\ UNCHANGED << peerVars, apc, pipeVars, now,
                    retryVars, lifeVars >>

(* if b.active { return }; time.Sleep(10 * time.Millisecond) *)
WfcBody ==
    /\ ~exited
    /\ wfcPc = "body"
    /\ IF wfc.active
         THEN /\ wfcPc' = "returned"
              /\ wfc' = [wfc EXCEPT !.retAt = now, !.retConnected = active]
         ELSE /\ wfcPc' = "sleep"
              /\ wfc' = [wfc EXCEPT !.wake = now + 1]
    /\ UNCHANGED << peerVars, apc, pipeVars, now,
                    retryVars, lifeVars >>

(* time.Sleep returns *)
WfcWake ==
    /\ ~exited
    /\ wfcPc = "sleep"
    /\ now >= wfc.wake
    /\ wfcPc' = "test"
    /\ UNCHANGED << peerVars, apc, pipeVars, now, wfc,
                    retryVars, lifeVars >>

-----------------------------------------------------------------------------
(* Initial states *)

(* new(Bridge): no connection, no peers, no goroutine started *)
InitPeerTable ==
    /\ peers = << >>
    /\ lastOp = NoOp
    /\ nAdd = 0
    /\ nRemove = 0
    /\ configured = << >>

InitPipeline ==
    /\ apc = "new"
    /\ active = FALSE
    /\ sees = [writer |-> {FALSE}, app |-> {FALSE}]
    /\ serial = << >>
    /\ nChunks = 0
    /\ chunkLog = << >>
    /\ bytesRead = << >>
    /\ rpc = "off"
    /\ detected = 0
    /\ rbuf = << >>
    /\ scanned = << >>
    /\ inbox = << >>
    /\ outbox = << >>
    /\ nSent = 0
    /\ wpc = "off"
    /\ written = << >>
    /\ exited = FALSE

InitWait ==
    /\ now = 0
    /\ wfcPc = "idle"
    /\ wfc = NoWait

InitRetry ==
    /\ clock = 0
    /\ scanFrom = 0
    /\ resetAt = 0

IdleWriter == [pc |-> "off", msg |-> "none", part |-> 0, frame |-> 0]

InitLife ==
    /\ connection = 0
    /\ portState = [k \in 1..MaxConnects |-> "none"]
    /\ boxes = 0
    /\ closedChans = {}
    /\ pending = [k \in 1..MaxConnects |-> 0]
    /\ wire = [k \in 1..MaxConnects |-> << >>]
    /\ lpc = "idle"
    /\ calls = << >>
    /\ lret = "none"
    /\ readers = [k \in 1..MaxConnects |-> "off"]
    /\ reassemblers = [k \in 1..MaxConnects |-> "off"]
    /\ writers = [k \in 1..MaxConnects |-> IdleWriter]

Init == InitPeerTable /\ InitPipeline /\ InitWait /\ InitRetry /\ InitLife

-----------------------------------------------------------------------------
(* SpecPeers: an application calling AddPeer and RemovePeer on a new Bridge. *)
(* The k-th AddPeer call uses the k-th address, so all addresses differ.     *)

CallAddPeer ==
    /\ nAdd < MaxAddCalls
    /\ \E ch \in Channels : AddPeer(Mac(nAdd + 1), ch)
    /\ nAdd' = nAdd + 1
    /\ UNCHANGED << nRemove, configured, pipeVars, apc, waitVars,
                    retryVars, lifeVars >>

CallRemovePeer ==
    /\ nRemove < MaxRemoveCalls
    /\ \E k \in 1..MaxAddCalls : RemovePeer(Mac(k))
    /\ nRemove' = nRemove + 1
    /\ UNCHANGED << nAdd, configured, pipeVars, apc, waitVars,
                    retryVars, lifeVars >>

NextPeers == CallAddPeer \/ CallRemovePeer

SpecPeers == Init /\ [][NextPeers]_vars

-----------------------------------------------------------------------------
(* Spec: the pipeline after Connect, a device sending any chunks, and an     *)
(* application sending messages.                                             *)

Pipeline ==
    \/ Connect
    \/ ReadBytes
    \/ RScan
    \/ RScanTimeout
    \/ RRead
    \/ REmit
    \/ WTop
    \/ WTimeout
    \/ WRecvReset
    \/ WRecvConnectReset

Next ==
    \/ Pipeline
    \/ DeviceSend(AllChunks)
    \/ WRecvMsg
    \/ WRecvSendPeers
    \/ AppSend

Spec == Init /\ [][Next]_vars

(* SpecFrames: the pipeline with a device that sends markers and message     *)
(* frames, whole or corrupted, the chunks it sent being logged.              *)

NextFrames ==
    \/ Pipeline
    \/ DeviceSendLogged(FrameStreamChunks)

SpecFrames == Init /\ [][NextFrames]_vars

(* SpecWait: the pipeline with a device that sends markers and bad headers,  *)
(* a clock, and an application that calls WaitForConnected once.             *)

NextWait ==
    \/ Pipeline
    \/ DeviceSend({MarkerChunk, BadHeaderChunk, FrameChunk(CHOOSE m \in InMessages : m.Data # << >>)})
    \/ Tick
    \/ WfcCall
    \/ WfcTest
    \/ WfcBody
    \/ WfcWake

SpecWait == Init /\ [][NextWait]_vars

(* SpecPush: the pipeline with a device that sends markers and peer-table    *)
(* requests, and an application configuring peers.                           *)

NextPush ==
    \/ Pipeline
    \/ DeviceSend({MarkerChunk, GetPeersChunk} \cup FrameChunks)
    \/ WRecvSendPeers
    \/ AppAddPeer
    \/ AppRemovePeer

SpecPush == Init /\ [][NextPush]_vars

(* SpecRetry: the pipeline under a clock that counts seconds. The timeout  *)
(* of the marker scan fires when its time.After has run for ScanWindow, and *)
(* no time passes while a goroutine has a step it can take at once.         *)

MaxClock == 4           \* seconds the clock runs

ScanWindow == 2         \* time.After(2 * time.Second)

(* case <-time.After(2 * time.Second): the timer was started when the select *)
(* was entered                                                              *)
RScanTimeoutTimed ==
    /\ clock - scanFrom >= ScanWindow
    /\ RScanTimeout

(* a second passes: the reassembler is blocked in the marker scan with its   *)
(* timer still running, or waits for the bytes of a frame                    *)
ClockTick ==
    /\ ~exited
    /\ apc = "ready"
    /\ clock < MaxClock
    /\ serial = << >>
    /\ bytesRead = << >>
    /\ rpc \in {"scan", "frame"}
    /\ rpc = "scan" => clock - scanFrom < ScanWindow
    /\ clock' = clock + 1
    /\ UNCHANGED << peerVars, pipeVars, apc, waitVars, scanFrom, resetAt, lifeVars >>

NextRetry ==
    \/ Connect
    \/ ReadBytes
    \/ RScan
    \/ RScanTimeoutTimed
    \/ RRead
    \/ REmit
    \/ WTop
    \/ WTimeout
    \/ WRecvReset
    \/ WRecvConnectReset
    \/ DeviceSend({MarkerChunk, NoiseChunk, BadHeaderChunk} \cup FrameChunks)
    \/ ClockTick

SpecRetry == Init /\ [][NextRetry]_vars

-----------------------------------------------------------------------------
(* SpecLife: the life of a Bridge. An application calls Connect and Close    *)
(* and sends Messages; every successful Connect opens a port and starts a    *)
(* pipeline of three goroutines, which Close does not stop. The pipelines    *)
(* are followed as far as their effect on the ports goes: a device that      *)
(* acknowledges the handshake or breaks the framing, and the single writes   *)
(* of writeBytes. No peer is written, AddPeer never storing one.             *)

Pipelines == 1..MaxConnects

ConnectionIsNilAlways(c) == TRUE

(* if b.connection == nil *)
ConnectionIsNil(c) == c = 0

ConnectionOpenAlways(c) == TRUE

(* if b.connection != nil *)
ConnectionOpen(c) == c # 0

NoForcedReset == << >>

(* b.connection.Write([]byte{0x00, 0x00, 0x00, 0x00, 0x00}), by setupBridge *)
SetupWrites ==
    << [by |-> 0, frame |-> 0, part |-> 1, of |-> 1, bytes |-> ForcedReset] >>

(* the Messages a writer takes: one sent by the application, or the zero     *)
(* Message a receive from the closed Outbox gives                            *)
LifeMessage(kind) ==
    IF kind = "hi" THEN [Mac |-> Mac(1), Data |-> << 104, 105 >>]
    ELSE [Mac |-> << 0, 0, 0, 0, 0, 0 >>, Data |-> << >>]

(* the assureWritten calls made for a Message; one with no data writes nothing *)
FrameParts(msg) ==
    SelectSeq(<< SendMessageHeader,
                 msg.Mac,
                 << CrcLow(CalculateCRC(msg.Data)), CrcHigh(CalculateCRC(msg.Data)) >>,
                 << Len(msg.Data) % 256 >>,
                 msg.Data >>,
              LAMBDA part : part # << >>)

WriteCount ==
    Cardinality(UNION {{<< k, i >> : i \in 1..Len(wire[k])} : k \in Pipelines})

(* assureWritten(b.connection, data): b.connection is read at the call; a    *)
(* nil connection panics, a closed port fails the write and log.Fatal ends   *)
(* the process                                                               *)
AssureWritten(rec) ==
    IF connection = 0 \/ portState[connection] # "open"
      THEN exited' = TRUE /\ UNCHANGED wire
      ELSE wire' = [wire EXCEPT ![connection] = Append(@, rec)] /\ UNCHANGED exited

(* Connect, and setupBridge up to its first reset <- true *)
LifeConnect ==
    /\ ~exited
    /\ lpc = "idle"
    /\ Len(calls) < MaxCalls
    /\ calls' = Append(calls, "Connect")
    /\ IF ConnectionIsNil(connection)
         THEN \/ /\ lret' = "OpenFailed"
                 /\ UNCHANGED << connection, portState, wire, lpc, readers, reassemblers,
                                 writers >>
              \/ /\ \E k \in Pipelines :
                      /\ portState[k] = "none"
                      /\ \A j \in 1..(k - 1) : portState[j] # "none"
                      /\ connection' = k
                      /\ portState' = [portState EXCEPT ![k] = "open"]
                      /\ wire' = [wire EXCEPT ![k] = SetupWrites]
                      /\ readers' = [readers EXCEPT ![k] = "read"]
                      /\ reassemblers' = [reassemblers EXCEPT ![k] = "top"]
                      /\ writers' = [writers EXCEPT ![k] = [IdleWriter EXCEPT !.pc = "top"]]
                 /\ lpc' = "reset1"
                 /\ UNCHANGED lret
         ELSE /\ lret' = "AlreadyInitialized"
              /\ UNCHANGED << connection, portState, wire, lpc, readers, reassemblers,
                              writers >>
    /\ UNCHANGED << boxes, closedChans, pending, peerVars, apc, pipeVars, waitVars,
                    retryVars >>

(* Close *)
LifeClose ==
    /\ ~exited
    /\ lpc = "idle"
    /\ Len(calls) < MaxCalls
    /\ calls' = Append(calls, "Close")
    /\ IF ConnectionOpen(connection)
         THEN IF boxes = 0 \/ << "outbox", boxes >> \in closedChans
                THEN /\ exited' = TRUE
                     /\ UNCHANGED << connection, portState, closedChans, lret >>
                ELSE /\ closedChans' = closedChans \cup {<< "outbox", boxes >>}
                     /\ portState' = [k \in Pipelines |->
                                        IF k = connection THEN "closed" ELSE portState[k]]
                     /\ connection' = 0
                     /\ lret' = "nil"
                     /\ UNCHANGED exited
         ELSE /\ lret' = "nil"
              /\ UNCHANGED << connection, portState, closedChans, exited >>
    /\ UNCHANGED << boxes, pending, wire, lpc, readers, reassemblers, writers, peerVars,
                    apc, active, sees, pipeRest, waitVars, retryVars >>

(* br.Outbox <- msg *)
LifeSend ==
    /\ ~exited
    /\ lpc = "idle"
    /\ Len(calls) < MaxCalls
    /\ boxes # 0
    /\ << "outbox", boxes >> \notin closedChans
    /\ calls' = Append(calls, "Send")
    /\ pending' = [pending EXCEPT ![boxes] = @ + 1]
    /\ UNCHANGED << connection, portState, boxes, closedChans, wire, lpc, lret, readers,
                    reassemblers, writers, peerVars, apc, pipeVars, waitVars, retryVars >>

(* readBytes: source.Read returns an error once the port is closed, and      *)
(* log.Fatal ends the process                                                *)
LrReadError ==
    /\ ~exited
    /\ \E p \in Pipelines :
         /\ readers[p] = "read"
         /\ portState[p] = "closed"
         /\ readers' = [readers EXCEPT ![p] = "failed"]
    /\ exited' = TRUE
    /\ UNCHANGED << connection, portState, boxes, closedChans, pending, wire, lpc, calls,
                    lret, reassemblers, writers, peerVars, apc, active, sees, pipeRest,
                    waitVars, retryVars >>

(* reassembleMessages: if !*active at the top of the loop *)
LraTop ==
    /\ ~exited
    /\ \E p \in Pipelines :
         /\ reassemblers[p] = "top"
         /\ reassemblers' = [reassemblers EXCEPT ![p] = IF active THEN "frame" ELSE "reset"]
    /\ UNCHANGED << connection, portState, boxes, closedChans, pending, wire, lpc, calls,
                    lret, readers, writers, peerVars, apc, pipeVars, waitVars, retryVars >>

(* reassembleMessages: the marker arrives and the scan loop ends *)
LraMarker ==
    /\ ~exited
    /\ \E p \in Pipelines :
         /\ reassemblers[p] = "scan"
         /\ readers[p] = "read"
         /\ portState[p] = "open"
         /\ reassemblers' = [reassemblers EXCEPT ![p] = "frame"]
    /\ SetActive(TRUE)
    /\ UNCHANGED << connection, portState, boxes, closedChans, pending, wire, lpc, calls,
                    lret, readers, writers, peerVars, apc, pipeRest, exited, waitVars,
                    retryVars >>

(* reassembleMessages: a bad header or a CRC failure *)
LraDesync ==
    /\ ~exited
    /\ \E p \in Pipelines :
         /\ reassemblers[p] = "frame"
         /\ readers[p] = "read"
         /\ portState[p] = "open"
         /\ reassemblers' = [reassemblers EXCEPT ![p] = "top"]
    /\ SetActive(FALSE)
    /\ UNCHANGED << connection, portState, boxes, closedChans, pending, wire, lpc, calls,
                    lret, readers, writers, peerVars, apc, pipeRest, exited, waitVars,
                    retryVars >>

(* writeBytes: if !b.active at the top of the loop, an unsynchronized read *)
LwTop ==
    /\ ~exited
    /\ \E p \in Pipelines, v \in sees.writer :
         /\ writers[p].pc = "top"
         /\ writers' = [writers EXCEPT ![p].pc = IF v THEN "selC" ELSE "selN"]
    /\ UNCHANGED << connection, portState, boxes, closedChans, pending, wire, lpc, calls,
                    lret, readers, reassemblers, peerVars, apc, pipeVars, waitVars,
                    retryVars >>

(* a reset is offered to the writer of pipeline p by its reassembler, or by  *)
(* the setupBridge that started it                                           *)
ConnectOffersReset(p) == lpc \in {"reset1", "reset2"} /\ p = connection
ResetOffered(p) == reassemblers[p] = "reset" \/ ConnectOffersReset(p)

(* writeBytes, not connected: case <-time.After(100 * time.Millisecond) *)
LwTimeout ==
    /\ ~exited
    /\ \E p \in Pipelines :
         /\ writers[p].pc = "selN"
         /\ ~ResetOffered(p)
         /\ writers' = [writers EXCEPT ![p].pc = "top"]
    /\ UNCHANGED << connection, portState, boxes, closedChans, pending, wire, lpc, calls,
                    lret, readers, reassemblers, peerVars, apc, pipeVars, waitVars,
                    retryVars >>

(* writeBytes: case <-reset in either select, and the reset frame written.   *)
(* The second reset received from setupBridge lets Connect set Inbox and     *)
(* Outbox and return.                                                        *)
LwReset ==
    /\ ~exited
    /\ WriteCount < MaxWrites
    /\ \E p \in Pipelines :
         /\ writers[p].pc \in {"selN", "selC"}
         /\ \/ /\ reassemblers[p] = "reset"
               /\ reassemblers' = [reassemblers EXCEPT ![p] = "scan"]
               /\ UNCHANGED << lpc, boxes, lret >>
            \/ /\ ConnectOffersReset(p)
               /\ lpc' = IF lpc = "reset1" THEN "reset2" ELSE "idle"
               /\ boxes' = IF lpc = "reset2" THEN p ELSE boxes
               /\ lret' = IF lpc = "reset2" THEN "nil" ELSE lret
               /\ UNCHANGED reassemblers
         /\ AssureWritten([by |-> p, frame |-> writers[p].frame + 1, part |-> 1, of |-> 1,
                           bytes |-> ResetMessage])
         /\ writers' = [writers EXCEPT ![p].pc = "top", ![p].frame = @ + 1]
    /\ UNCHANGED << connection, portState, closedChans, pending, calls, readers, peerVars,
                    apc, active, sees, pipeRest, waitVars, retryVars >>

(* writeBytes, connected: case msg := <-box; a closed Outbox gives the zero  *)
(* Message once it is empty                                                  *)
LwTakeMsg ==
    /\ ~exited
    /\ \E p \in Pipelines :
         /\ writers[p].pc = "selC"
         /\ \/ /\ pending[p] > 0
               /\ pending' = [pending EXCEPT ![p] = @ - 1]
               /\ writers' = [writers EXCEPT ![p] = [pc |-> "msg", msg |-> "hi", part |-> 1,
                                                    frame |-> @.frame + 1]]
            \/ /\ pending[p] = 0
               /\ << "outbox", p >> \in closedChans
               /\ UNCHANGED pending
               /\ writers' = [writers EXCEPT ![p] = [pc |-> "msg", msg |-> "zero", part |-> 1,
                                                    frame |-> @.frame + 1]]
    /\ UNCHANGED << connection, portState, boxes, closedChans, wire, lpc, calls, lret,
                    readers, reassemblers, peerVars, apc, pipeVars, waitVars, retryVars >>

(* writeBytes: the next assureWritten of the Message taken *)
LwWritePart ==
    /\ ~exited
    /\ WriteCount < MaxWrites
    /\ \E p \in Pipelines :
         /\ writers[p].pc = "msg"
         /\ LET parts == FrameParts(LifeMessage(writers[p].msg))
                w == writers[p]
            IN  /\ AssureWritten([by |-> p, frame |-> w.frame, part |-> w.part,
                                  of |-> Len(parts), bytes |-> parts[w.part]])
                /\ writers' = [writers EXCEPT ![p] =
                                 IF w.part = Len(parts)
                                   THEN [w EXCEPT !.pc = "top", !.msg = "none", !.part = 0]
                                   ELSE [w EXCEPT !.part = @ + 1]]
    /\ UNCHANGED << connection, portState, boxes, closedChans, pending, lpc, calls, lret,
                    readers, reassemblers, peerVars, apc, active, sees, pipeRest, waitVars,
                    retryVars >>

NextLife ==
    \/ LifeConnect
    \/ LifeClose
    \/ LifeSend
    \/ LrReadError
    \/ LraTop
    \/ LraMarker
    \/ LraDesync
    \/ LwTop
    \/ LwTimeout
    \/ LwReset
    \/ LwTakeMsg
    \/ LwWritePart

SpecLife == Init /\ [][NextLife]_vars

-----------------------------------------------------------------------------
(* SpecRemove: RemovePeer applied to every table of at most MaxTable entries *)
(* over three addresses and two channels, duplicates of an address included. *)

TableMacs == {Mac(1), Mac(2), Mac(3)}
PeerEntries == [mac : TableMacs, wifiChannel : Channels]
Tables == UNION {[1..n -> PeerEntries] : n \in 0..MaxTable}

InitRemove ==
    /\ peers \in Tables
    /\ lastOp = NoOp
    /\ nAdd = 0
    /\ nRemove = 0
    /\ configured = << >>
    /\ InitPipeline
    /\ InitWait
    /\ InitRetry
    /\ InitLife

ApplyRemovePeer ==
    /\ nRemove < MaxRemoveCalls
    /\ \E m \in TableMacs : RemovePeer(m)
    /\ nRemove' = nRemove + 1
    /\ UNCHANGED << nAdd, configured, pipeVars, apc, waitVars,
                    retryVars, lifeVars >>

SpecRemove == InitRemove /\ [][ApplyRemovePeer]_vars

-----------------------------------------------------------------------------
(* SpecCodec: the frame writeBytes writes for a Message, read back with the  *)
(* field layout reassembleMessages uses after a 55 44 header, for every      *)
(* Message of a bounded set.                                                 *)

MaxCodecLen == 3        \* longest payload enumerated over CodecBytes

CodecBytes == {0, 1, 255}
CodecMacs == {Mac(1), << 255, 255, 255, 255, 255, 255 >>}
CodecPayloads ==
    UNION {[1..n -> CodecBytes] : n \in 0..MaxCodecLen}
      \cup { << 49, 50, 51, 52, 53, 54, 55, 56, 57 >>,
             [i \in 1..MaxPayload |-> i % 256],
             [i \in 1..MaxPayload |-> 255] }
CodecMessages == [Mac : CodecMacs, Data : CodecPayloads]

InitCodec ==
    /\ InitPeerTable
    /\ InitWait
    /\ InitRetry
    /\ InitLife
    /\ apc = "new"
    /\ active = FALSE
    /\ sees = [writer |-> {FALSE}, app |-> {FALSE}]
    /\ serial = << >>
    /\ nChunks = 0
    /\ chunkLog = << >>
    /\ bytesRead = << >>
    /\ rpc = "off"
    /\ detected = 0
    /\ rbuf = << >>
    /\ scanned = << >>
    /\ inbox = << >>
    /\ \E m \in CodecMessages : outbox = << m >>
    /\ nSent = 1
    /\ wpc = "off"
    /\ written = << >>
    /\ exited = FALSE

(* writeBytes, case msg := <-box: the frame written for the Message *)
EncodeFrame ==
    /\ written = << >>
    /\ ~Oversize(Head(outbox))
    /\ written' = << MessageFrame(Head(outbox)) >>
    /\ UNCHANGED << peerVars, apc, active, sees, serial, nChunks, chunkLog, bytesRead, rpc,
                    detected, rbuf, scanned, inbox, outbox, nSent, wpc, exited, waitVars,
                    retryVars, lifeVars >>

(* reassembleMessages, case 55 44: mac, crc, size and data read from the     *)
(* bytes that follow the header, the CRC test, and the Message built         *)
DecodeFrame ==
    /\ written # << >>
    /\ rpc = "off"
    /\ LET buf == RecvMessageHeader \o SubSeq(written[1], 3, Len(written[1]))
       IN  /\ FrameComplete(buf)
           /\ IF CrcFailure(buf)
                THEN rpc' = "reset" /\ UNCHANGED inbox
                ELSE rpc' = "frame" /\ inbox' = << FrameMessage(buf) >>
    /\ UNCHANGED << peerVars, apc, active, sees, serial, nChunks, chunkLog, bytesRead,
                    detected, rbuf, scanned, outbox, nSent, wpc, written, exited, waitVars,
                    retryVars, lifeVars >>

NextCodec == EncodeFrame \/ DecodeFrame

SpecCodec == InitCodec /\ [][NextCodec]_vars

-----------------------------------------------------------------------------
(* SpecEnd: the pipeline with a byte queue that ends. The device sends       *)
(* markers and message frames; the byte queue is closed after any number of  *)
(* the bytes read, in the middle of a chunk or between two, which is the     *)
(* input reassembleMessages is written for (its tests of running).           *)
(* The queue and the Inbox are the channels of pipeline 1 in closedChans.    *)

BytesClosed == << "bytesRead", 1 >> \in closedChans
InboxClosed == << "inbox", 1 >> \in closedChans

(* the second result of a receive from the byte queue: b, running := <-input *)
(* and b, more := <-input. A closed queue still hands out the bytes it holds *)
RunningAlways(queue, closed) == TRUE
Running(queue, closed) == ~(closed /\ queue = << >>)

(* readBytes forwards what it read for as long as the queue is open *)
ReadBytesOpen == ~BytesClosed /\ ReadBytes

(* close(output) on the byte queue, between two of the sends output <- buf[i] *)
(* of the bytes read: the first n are forwarded, the others never are         *)
CloseBytes ==
    /\ ~exited
    /\ apc # "new"
    /\ ~BytesClosed
    /\ \E n \in 0..Len(serial) :
         /\ bytesRead' = bytesRead \o SubSeq(serial, 1, n)
         /\ serial' = SubSeq(serial, n + 1, Len(serial))
    /\ closedChans' = closedChans \cup {<< "bytesRead", 1 >>}
    /\ UNCHANGED << peerVars, apc, active, sees, nChunks, chunkLog, rpc, detected, rbuf,
                    scanned, inbox, outbox, nSent, wpc, written, exited, waitVars,
                    retryVars, connection, portState, boxes, pending, wire, lpc, calls,
                    lret, readers, reassemblers, writers >>

(* the marker scan's timer: a receive from a closed queue is ready at once, *)
(* so time.After(2 * time.Second) is only ever chosen on an open queue      *)
RScanTimeoutOpen == Running(bytesRead, BytesClosed) /\ RScanTimeout

(* a receive that reports the queue closed, in the marker scan or anywhere   *)
(* in a frame: after a failed getBytes for the address or the CRC the next   *)
(* receives fail at once too, down to the test of running after the length   *)
(* byte. The function returns and its deferred close(output) runs            *)
REnd ==
    /\ ~exited
    /\ rpc \in {"scan", "frame"}
    /\ ~Running(bytesRead, BytesClosed)
    /\ rpc' = "done"
    /\ closedChans' = closedChans \cup {<< "inbox", 1 >>}
    /\ UNCHANGED << peerVars, apc, active, sees, serial, nChunks, chunkLog, bytesRead,
                    detected, rbuf, scanned, inbox, outbox, nSent, wpc, written, exited,
                    waitVars, retryVars, connection, portState, boxes, pending, wire,
                    lpc, calls, lret, readers, reassemblers, writers >>

NextEnd ==
    \/ Connect
    \/ ReadBytesOpen
    \/ RScan
    \/ RScanTimeoutOpen
    \/ RRead
    \/ REmit
    \/ REnd
    \/ WTop
    \/ WTimeout
    \/ WRecvReset
    \/ WRecvConnectReset
    \/ DeviceSend({MarkerChunk} \cup FrameChunks)
    \/ CloseBytes

SpecEnd == Init /\ [][NextEnd]_vars

-----------------------------------------------------------------------------
(* SpecLong: the pipeline with a device that sends markers and message       *)
(* frames, one of them with a length byte of 251 in front of 251 bytes of    *)
(* payload and the CRC of that payload.                                      *)

LongMessage == [Mac |-> Mac(2), Data |-> [i \in 1..(MaxPayload + 1) |-> 1]]

NextLong ==
    \/ Pipeline
    \/ DeviceSend({MarkerChunk, FrameChunk(LongMessage)} \cup FrameChunks)

SpecLong == Init /\ [][NextLong]_vars

-----------------------------------------------------------------------------
(* Claims about the peer table *)

RECURSIVE FirstFrom(_, _, _)
FirstFrom(ps, mac, i) ==
    IF i > Len(ps) THEN 0
    ELSE IF ps[i].mac = mac THEN i ELSE FirstFrom(ps, mac, i + 1)
FindFirst(ps, mac) == FirstFrom(ps, mac, 1)

Count(ps, p) == Cardinality({i \in 1..Len(ps) : ps[i] = p})
Entries(ps) == {ps[i] : i \in 1..Len(ps)}

(* C1: from an empty table and with no RemovePeer, AddPeer calls with       *)
(* distinct addresses succeed for the first 19 calls, and the 20th call     *)
(* returns PeerTableFull and leaves the table unchanged.                    *)
C1_TwentiethAddFails ==
    (nRemove = 0 /\ lastOp.op = "AddPeer") =>
        /\ (nAdd <= 19 => lastOp.err = "nil")
        /\ (nAdd = 20 => lastOp.err = "PeerTableFull" /\ peers = lastOp.before)

(* C2: after an AddPeer(address, channel) that returned no error the table  *)
(* holds a peer with that address and channel, is one entry longer, and     *)
(* still holds every peer it held before.                                   *)
C2_AddPeerAppends ==
    (lastOp.op = "AddPeer" /\ lastOp.err = "nil") =>
        /\ Len(peers) = Len(lastOp.before) + 1
        /\ [mac |-> lastOp.mac, wifiChannel |-> lastOp.ch] \in Entries(peers)
        /\ \A p \in Entries(lastOp.before) : Count(peers, p) >= Count(lastOp.before, p)

(* C3: RemovePeer(address) on a table of N peers holding the address leaves *)
(* N-1 peers: the first entry with that address is gone and every other     *)
(* entry is still there, in any order; a table not holding the address is   *)
(* left as it was.                                                          *)
C3_RemovePeerRemovesOne ==
    lastOp.op = "RemovePeer" =>
        LET before == lastOp.before
            first  == FindFirst(before, lastOp.mac)
        IN  IF first = 0
              THEN peers = before
              ELSE /\ Len(peers) = Len(before) - 1
                   /\ \A p \in Entries(before) :
                         Count(peers, p) =
                           Count(before, p) - (IF p = before[first] THEN 1 ELSE 0)
                   /\ Entries(peers) \subseteq Entries(before)

C3_Witness ==
    /\ lastOp.op = "RemovePeer"
    /\ Len(lastOp.before) = 3
    /\ lastOp.before[1].mac = lastOp.mac
    /\ lastOp.before[3].mac = lastOp.mac
    /\ lastOp.before[1] # lastOp.before[3]
    /\ Len(peers) = 2

-----------------------------------------------------------------------------
(* Claims about the pipeline *)

IsPerm(a, b) ==
    /\ Len(a) = Len(b)
    /\ \A x \in Entries(a) \cup Entries(b) : Count(a, x) = Count(b, x)

(* the step in which the writer receives the peer-table-push signal *)
PushServed == wpc = "selC" /\ rpc = "push" /\ rpc' = "frame"

(* C4: servicing a peer-table-push while connected, the writer writes one    *)
(* 33 22 frame, with address and channel, for every peer the application has *)
(* configured (added successfully and not removed since), and no other.      *)
C4_PushWritesConfiguredPeers ==
    [][PushServed => IsPerm(written', PeerFrames(configured))]_vars

(* the reassembler has taken every byte the device sent and is waiting for a *)
(* frame header                                                              *)
StreamConsumed ==
    serial = << >> /\ bytesRead = << >> /\ rpc = "frame" /\ rbuf = << >>

(* C5: for a stream of the activation marker followed by one well-formed     *)
(* 55 44 frame with a correct CRC, the reassembler puts exactly one Message  *)
(* into the Inbox, with the frame's address and payload.                     *)
C5_OneMessagePerFrame ==
    \A m \in InMessages :
        chunkLog = << MarkerChunk, FrameChunk(m) >> =>
            /\ inbox \in {<< >>, << m >>}
            /\ StreamConsumed => inbox = << m >>

C5_Witness ==
    /\ chunkLog = << MarkerChunk,
                     FrameChunk([Mac |-> << 170, 187, 204, 221, 238, 255 >>,
                                 Data |-> << 104, 105 >>]) >>
    /\ StreamConsumed
    /\ inbox = << [Mac |-> << 170, 187, 204, 221, 238, 255 >>,
                   Data |-> << 104, 105 >>] >>

(* the reassembler takes a byte from the byte queue *)
TakesByte == bytesRead # << >> /\ bytesRead' = Tail(bytesRead)

(* the byte taken completes a 55 44 frame whose carried CRC differs from the *)
(* CRC-16/XMODEM of its payload                                              *)
CrcMismatchRead ==
    /\ rpc = "frame"
    /\ TakesByte
    /\ LET buf == Append(rbuf, Head(bytesRead))
       IN  /\ Len(buf) >= 11
           /\ SubSeq(buf, 1, 2) = << 85, 68 >>
           /\ Len(buf) = 11 + buf[11]
           /\ buf[9] + 256 * buf[10] # CalculateCRC(SubSeq(buf, 12, Len(buf)))

(* the byte taken completes a header that is neither 55 44 nor 44 33 *)
BadHeaderRead ==
    /\ rpc = "frame"
    /\ TakesByte
    /\ Len(rbuf) = 1
    /\ << rbuf[1], Head(bytesRead) >> \notin {<< 85, 68 >>, << 68, 51 >>}

(* C6: on a 55 44 frame read while connected whose CRC does not match, the   *)
(* reassembler emits no Message, sets the session state to not connected,    *)
(* re-enters the handshake wait, and sends a reset-request before it takes   *)
(* any further byte.                                                         *)
C6_CrcMismatchResets ==
    [][ /\ CrcMismatchRead =>
              (~active' /\ inbox' = inbox /\ rpc' = "reset" /\ rbuf' = << >>)
        /\ rpc = "reset" =>
              /\ ~TakesByte
              /\ inbox' = inbox
              /\ rpc' \in {"reset", "scan"}
              /\ rpc' = "scan" => written' = << ResetMessage >>
      ]_vars

C6_Witness ==
    /\ chunkLog = << MarkerChunk,
                     CorruptChunk([Mac |-> << 170, 187, 204, 221, 238, 255 >>,
                                   Data |-> << 104, 105 >>]) >>
    /\ serial = << >>
    /\ bytesRead = << >>
    /\ rpc = "scan"
    /\ ~active
    /\ inbox = << >>
    /\ written = << ResetMessage >>

WritesCommandFrame ==
    /\ written' # written
    /\ \E i \in 1..Len(written') :
         SubSeq(written'[i], 1, 2) \in {SendMessageHeader, AddPeerHeader}

(* C7: the writer writes a 22 11 or a 33 22 frame only while the session     *)
(* state is connected.                                                       *)
C7_CommandFramesOnlyWhenConnected ==
    [][WritesCommandFrame => active]_vars

C9_ReturnsConnectedOrTimedOut ==
    wfcPc = "returned" => (wfc.retConnected \/ wfc.retAt >= wfc.end)

(* the writer takes an outbound Message of more than 250 bytes *)
TakesOversize ==
    /\ wpc = "selC"
    /\ outbox # << >>
    /\ outbox' = Tail(outbox)
    /\ Len(Head(outbox).Data) > 250

(* C10: when the writer, while connected, takes an outbound Message whose    *)
(* payload is longer than 250 bytes, the writer aborts before any byte of    *)
(* that message is written to the connection.                                *)
C10_OversizeRejectedBeforeWrite ==
    [][ /\ TakesOversize => (written' = << >> /\ exited')
        /\ exited => (exited' /\ written' = written)
      ]_vars

C10_Witness ==
    /\ exited
    /\ nSent >= 1
    /\ outbox = << >>
    /\ written = << >>

-----------------------------------------------------------------------------
(* Claims about the life of a Bridge *)

ConnectCalled == Len(calls') = Len(calls) + 1 /\ calls'[Len(calls')] = "Connect"
CloseCalled == Len(calls') = Len(calls) + 1 /\ calls'[Len(calls')] = "Close"

(* C11: Connect on a Bridge whose connection is open returns the             *)
(* AlreadyInitialized error and changes nothing: nothing is written, no      *)
(* goroutine is started, and connection, Inbox and Outbox stay as they were. *)
C11_SecondConnectRejected ==
    [][(ConnectCalled /\ connection # 0) =>
          /\ lret' = "AlreadyInitialized"
          /\ UNCHANGED << connection, portState, boxes, closedChans, pending, wire, lpc,
                          readers, reassemblers, writers, active, exited >>
      ]_vars

C11_Witness ==
    /\ calls = << "Connect", "Connect" >>
    /\ lret = "AlreadyInitialized"
    /\ connection = 1
    /\ boxes = 1
    /\ portState = [k \in Pipelines |-> IF k = 1 THEN "open" ELSE "none"]

(* C12: the first Close on a connected Bridge closes the Outbox and the      *)
(* connection, each once; a later Close, and a Close on a Bridge that was    *)
(* never connected, closes nothing and returns no error.                     *)
C12_CloseIdempotent ==
    [][CloseCalled =>
          /\ lret' = "nil"
          /\ ~exited'
          /\ IF connection = 0
               THEN UNCHANGED << connection, portState, boxes, closedChans, wire >>
               ELSE /\ portState[connection] = "open"
                    /\ portState' = [portState EXCEPT ![connection] = "closed"]
                    /\ << "outbox", boxes >> \notin closedChans
                    /\ closedChans' = closedChans \cup {<< "outbox", boxes >>}
                    /\ connection' = 0
      ]_vars

C12_Witness ==
    /\ calls = << "Connect", "Close", "Close" >>
    /\ lret = "nil"
    /\ ~exited
    /\ connection = 0
    /\ portState[1] = "closed"
    /\ closedChans = {<< "outbox", 1 >>}

(* the writes of every frame lie next to each other and in order *)
Contiguous(w) ==
    \A i \in 1..Len(w) :
        /\ w[i].part > 1 =>
              /\ i > 1
              /\ w[i - 1].by = w[i].by
              /\ w[i - 1].frame = w[i].frame
              /\ w[i - 1].part = w[i].part - 1
        /\ (w[i].part < w[i].of /\ i < Len(w)) =>
              /\ w[i + 1].by = w[i].by
              /\ w[i + 1].frame = w[i].frame
              /\ w[i + 1].part = w[i].part + 1

(* C13: after any sequence of Connect, Close and Messages sent, the bytes of *)
(* every frame written to a connection lie together on it, not interleaved   *)
(* with the bytes of another frame.                                          *)
C13_FramesContiguous ==
    \A k \in Pipelines : Contiguous(wire[k])

(* C14: after Close on a running Bridge the Byte Source stops and closes the *)
(* byte queue, on which the Reassembler ends and closes the Inbox: a Byte    *)
(* Source that has met the read error has closed its byte queue.             *)
C14_ReadErrorClosesQueue ==
    \A p \in Pipelines : readers[p] = "failed" => << "bytesRead", p >> \in closedChans

C15_FrameRoundTrip ==
    /\ written # << >> =>
          /\ SubSeq(written[1], 1, 2) = << 34, 17 >>
          /\ written[1][9] + 256 * written[1][10] = CalculateCRC(outbox[1].Data)
          /\ written[1][9] < 256 /\ written[1][10] < 256
          /\ written[1][11] = Len(outbox[1].Data)
    /\ rpc # "reset"
    /\ rpc = "frame" => inbox = outbox

C15_Witness ==
    /\ rpc = "frame"
    /\ outbox[1].Data = << 49, 50, 51, 52, 53, 54, 55, 56, 57 >>
    /\ SubSeq(written[1], 9, 10) = << 195, 49 >>
    /\ inbox = outbox

(* the byte taken by the marker scan completes an occurrence of the marker   *)
(* in the bytes scanned since the handshake wait began                       *)
MarkerCompleted ==
    /\ rpc = "scan"
    /\ TakesByte
    /\ LastBytes(Append(scanned, Head(bytesRead)), 7) = << 17, 34, 51, 68, 85, 102, 119 >>

(* C16: while awaiting the handshake, the reassembler is connected as soon   *)
(* as it has taken the last byte of the first occurrence of the marker       *)
(* 11 22 33 44 55 66 77 in the stream, whatever bytes came before it.        *)
C16_MarkerAlwaysDetected ==
    [][MarkerCompleted => (active' /\ rpc' = "frame")]_vars

(* C17: while the reassembler stays in the handshake wait without a whole    *)
(* marker having arrived, a reset-request is emitted again each time a wait  *)
(* window has passed since the previous one, whether or not other bytes      *)
(* arrive: it never waits longer than the window since its last request.     *)
C17_ResetResentEveryWindow ==
    rpc = "scan" => clock - resetAt <= ScanWindow

(* C18: on a 2-byte header read while connected that is neither 55 44 nor    *)
(* 44 33, the reassembler emits no Message and no peer-table-push signal,    *)
(* sets the session state to not connected and re-enters the handshake wait, *)
(* taking no byte beyond the two header bytes for that frame.                *)
C18_BadHeaderResets ==
    [][BadHeaderRead =>
          /\ ~active'
          /\ inbox' = inbox
          /\ rpc' = "reset"
          /\ rbuf' = << >>
          /\ detected' = detected
      ]_vars

C18_Witness ==
    /\ chunkLog = << MarkerChunk, BadHeaderChunk >>
    /\ serial = << >>
    /\ bytesRead = << >>
    /\ rpc = "scan"
    /\ ~active
    /\ inbox = << >>

(* the byte taken completes the header 44 33 *)
GetPeersRead ==
    /\ rpc = "frame"
    /\ TakesByte
    /\ Len(rbuf) = 1
    /\ << rbuf[1], Head(bytesRead) >> = << 68, 51 >>

(* C19: on the header 44 33 read while connected, the reassembler emits one  *)
(* peer-table-push signal and no Message, takes no further byte for that     *)
(* frame, and the session state stays connected.                             *)
C19_GetPeersSignalsPush ==
    [][ /\ GetPeersRead =>
              (rpc' = "push" /\ active /\ active' /\ inbox' = inbox /\ rbuf' = << >>)
        /\ rpc = "push" =>
              /\ ~TakesByte
              /\ inbox' = inbox
              /\ active' = active
              /\ rpc' \in {"push", "frame"}
              /\ rpc' = "frame" => (wpc = "selC" /\ wpc' = "top" /\ rbuf' = << >>)
      ]_vars

C19_Witness ==
    /\ rpc = "frame"
    /\ wpc = "top"
    /\ active
    /\ nChunks = 2
    /\ serial = << >>
    /\ bytesRead = << >>
    /\ rbuf = << >>
    /\ inbox = << >>
    /\ written = PeerFrames(peers)
    /\ sees.writer = {TRUE}

(* the reassembler is reading, in the marker scan or in a frame, from a byte *)
(* queue that is closed and drained                                          *)
ReadingAtEnd ==
    /\ ~exited
    /\ rpc \in {"scan", "frame"}
    /\ BytesClosed
    /\ bytesRead = << >>

(* C21: when the byte queue is closed while the reassembler scans for the    *)
(* marker or assembles a frame (header, address, CRC, length or payload),    *)
(* the reassembler can take its last step, and that step is the only one it  *)
(* takes: it terminates, closes the Inbox and puts no Message into it for    *)
(* the frame it was reading; once terminated it stays so, the Inbox closed   *)
(* and as it was.                                                            *)
C21_ClosedQueueEndsReassembler ==
    /\ [](ReadingAtEnd => ENABLED REnd)
    /\ [][(ReadingAtEnd /\ << rpc, rbuf, detected, inbox >>' # << rpc, rbuf, detected, inbox >>)
            => (rpc' = "done" /\ inbox' = inbox /\ rbuf' = rbuf /\ InboxClosed')]_vars
    /\ [][rpc = "done" => (rpc' = "done" /\ inbox' = inbox /\ InboxClosed')]_vars
    /\ [](InboxClosed => rpc = "done")

(* the queue was closed after the first CRC byte of a frame: the reassembler *)
(* has terminated with nine bytes of the frame read and an empty, closed     *)
(* Inbox                                                                     *)
C21_Witness ==
    /\ rpc = "done"
    /\ InboxClosed
    /\ BytesClosed
    /\ active
    /\ Len(rbuf) = 9
    /\ HeaderKind(SubSeq(rbuf, 1, 2)) = "message"
    /\ inbox = << >>

(* C22: every Message in the Inbox has a payload of at most 250 bytes,       *)
(* whatever the device sent, frames with a length byte of 251..255 and the   *)
(* CRC of their payload included.                                            *)
C22_InboxPayloadAtMost250 ==
    \A i \in 1..Len(inbox) : Len(inbox[i].Data) <= MaxPayload

(* the 22 11 headers written to the ports, and the Messages the application  *)
(* has put into an Outbox                                                    *)
MessageFramesWritten ==
    Cardinality(UNION {{<< k, i >> : i \in {j \in 1..Len(wire[k]) :
                                              wire[k][j].bytes = SendMessageHeader}} :
                       k \in Pipelines})
MessagesSent == Cardinality({i \in 1..Len(calls) : calls[i] = "Send"})

(* C23: every message frame (header 22 11) written to a connection stands    *)
(* for one Message the application put into the Outbox and no Message is     *)
(* written twice, so there are never more 22 11 headers on the ports than    *)
(* Messages sent; in particular none is written once the Outbox is closed    *)
(* and drained.                                                              *)
C23_FramesMatchMessages == MessageFramesWritten <= MessagesSent

====
